---- MODULE Spec2Model ----
(***************************************************************************)
(* House of Reign waitlist service (src/server.js): the subscription       *)
(* capture API over the single table `subscribers`, with its asynchronous  *)
(* storage callbacks and the outbound confirmation SMS; and the page       *)
(* script (the countdown timer and the subscription form), of which the    *)
(* repository holds two variants: src/unnamed/part_000 (variant 1) and the *)
(* script at src/server.js:369-633 (variant 2).                            *)
(*                                                                         *)
(* A JavaScript string is a sequence of one-character strings; a request   *)
(* field or a column is a record [nul, s]: nul = TRUE for undefined / null *)
(* / SQL NULL, otherwise s is the string.                                   *)
(***************************************************************************)
EXTENDS Integers, Sequences, FiniteSets, Bags, TLC

(***************************************************************************)
(* Bounds of the model.                                                    *)
(***************************************************************************)
\* Requests accepted over a run.
MaxRequests == 3
\* Requests whose callbacks may be pending at the same time.
MaxInFlight == 2
\* One-second ticks of the countdown timer over a run.
MaxTicks == 3
\* Submit events and input events of the subscription form over a run.
MaxSubmits == 3
MaxInputs == 2

(***************************************************************************)
(* Strings.                                                                *)
(***************************************************************************)
Null == [nul |-> TRUE, s |-> <<>>]
Str(s) == [nul |-> FALSE, s |-> s]

\* JavaScript truthiness of a value that is undefined, null or a string.
Truthy(f) == ~f.nul /\ f.s # <<>>

\* The vertical tab (U+000B), written as the character itself.
VerticalTab == ""

\* The white space String.prototype.trim strips and the class \s matches,
\* among the characters a string of the model can hold (ASCII): blank, tab,
\* line feed, vertical tab, form feed, carriage return.  The non-ASCII white
\* space (U+00A0, U+FEFF, U+2028, ...) is outside the alphabet of the model.
Whitespace == {" ", "\t", "\n", VerticalTab, "\f", "\r"}
DigitChars == {"0", "1", "2", "3", "4", "5", "6", "7", "8", "9"}
\* The letters, in alphabetical order.
LowerLetters ==
    <<"a", "b", "c", "d", "e", "f", "g", "h", "i", "j", "k", "l", "m",
      "n", "o", "p", "q", "r", "s", "t", "u", "v", "w", "x", "y", "z">>
UpperLetters ==
    <<"A", "B", "C", "D", "E", "F", "G", "H", "I", "J", "K", "L", "M",
      "N", "O", "P", "Q", "R", "S", "T", "U", "V", "W", "X", "Y", "Z">>
LowerChars == {LowerLetters[i] : i \in 1..Len(LowerLetters)}
UpperChars == {UpperLetters[i] : i \in 1..Len(UpperLetters)}

\* String.prototype.toUpperCase on one character: a lowercase letter
\* becomes its capital, every other ASCII character stays.
UpperChar(c) ==
    IF c \in LowerChars
    THEN UpperLetters[CHOOSE i \in 1..Len(LowerLetters) : LowerLetters[i] = c]
    ELSE c

toUpperCase(s) == [i \in 1..Len(s) |-> UpperChar(s[i])]

RECURSIVE TrimStart(_)
TrimStart(s) ==
    IF s # <<>> /\ Head(s) \in Whitespace THEN TrimStart(Tail(s)) ELSE s

RECURSIVE TrimEnd(_)
TrimEnd(s) ==
    IF s # <<>> /\ s[Len(s)] \in Whitespace
    THEN TrimEnd(SubSeq(s, 1, Len(s) - 1))
    ELSE s

\* String.prototype.trim
trim(s) == TrimEnd(TrimStart(s))

\* String.prototype.includes
includes(s, t) ==
    \E i \in 1..(Len(s) - Len(t) + 1) : SubSeq(s, i, i + Len(t) - 1) = t

\* String.prototype.split on a one-character separator.
RECURSIVE split(_, _)
split(s, sep) ==
    IF \A i \in 1..Len(s) : s[i] # sep THEN <<s>>
    ELSE LET k == CHOOSE i \in 1..Len(s) :
                      s[i] = sep /\ \A j \in 1..(i - 1) : s[j] # sep
         IN  <<SubSeq(s, 1, k - 1)>> \o split(SubSeq(s, k + 1, Len(s)), sep)

(***************************************************************************)
(* Validation (src/server.js:36-40, 78-80).  validator.isEmail and         *)
(* libphonenumber-js are libraries; they are modelled by what they do on   *)
(* strings over the alphabet above, with their default options.            *)
(***************************************************************************)
EmailChars == LowerChars \cup UpperChars \cup DigitChars

\* Index of the last "@" of s, 0 when there is none.
LastAt(s) ==
    IF \A i \in 1..Len(s) : s[i] # "@" THEN 0
    ELSE CHOOSE i \in 1..Len(s) :
             s[i] = "@" /\ \A j \in (i + 1)..Len(s) : s[j] # "@"

\* validator.isFQDN with require_tld: at least two labels, each of 1..63
\* letters or digits, the last one (the TLD) of at least two letters.
isFQDN(d) ==
    LET parts == split(d, ".")
        tld == parts[Len(parts)]
    IN  /\ Len(parts) >= 2
        /\ Len(tld) >= 2
        /\ \A i \in 1..Len(tld) : tld[i] \in LowerChars \cup UpperChars
        /\ \A k \in 1..Len(parts) :
              /\ Len(parts[k]) >= 1
              /\ Len(parts[k]) <= 63
              /\ \A i \in 1..Len(parts[k]) : parts[k][i] \in EmailChars

\* validator.isEmail: the text after the last "@" is the domain, the text
\* before it the user part (empty when there is no "@").
isEmail(s) ==
    LET at == LastAt(s)
        user == IF at = 0 THEN <<>> ELSE SubSeq(s, 1, at - 1)
        domain == SubSeq(s, at + 1, Len(s))
        uparts == split(user, ".")
    IN  /\ Len(s) <= 254
        /\ Len(user) <= 64
        /\ isFQDN(domain)
        /\ \A k \in 1..Len(uparts) :
              /\ Len(uparts[k]) >= 1
              /\ \A i \in 1..Len(uparts[k]) : uparts[k][i] \in EmailChars

\* The length ceiling of validateEmail.
MaxEmailLength == 254

\* validateEmail: called on a truthy string only.
validateEmail(email) == isEmail(email.s) /\ Len(email.s) <= MaxEmailLength

\* The digits of a raw phone string, punctuation dropped.
Digits(s) == SelectSeq(s, LAMBDA c : c \in DigitChars)

\* The national (significant) number libphonenumber-js extracts for the
\* default country US: after "+" the country calling code 1 is required;
\* without "+" a leading national prefix 1 of eleven digits is dropped.
NationalNumber(s) ==
    LET d == Digits(s)
    IN  IF s # <<>> /\ Head(s) = "+"
        THEN (IF d # <<>> /\ Head(d) = "1" THEN Tail(d) ELSE <<>>)
        ELSE (IF Len(d) = 11 /\ Head(d) = "1" THEN Tail(d) ELSE d)

\* PhoneNumber.isValid for US: ten digits, area code and exchange not
\* starting with 0 or 1.
isValid(n) ==
    /\ Len(n) = 10
    /\ n[1] \notin {"0", "1"}
    /\ n[4] \notin {"0", "1"}

\* toE164(raw, 'US'): null for a falsy input or an invalid number, else
\* "+1" followed by the national number.
toE164(raw) ==
    IF ~Truthy(raw) THEN Null
    ELSE LET n == NationalNumber(raw.s)
         IN  IF isValid(n) THEN Str(<<"+", "1">> \o n) ELSE Null

(***************************************************************************)
(* Inputs of the requests.                                                 *)
(***************************************************************************)
EmailA == Str(<<"a", "@", "b", ".", "c", "o">>)
EmailB == Str(<<"c", "@", "b", ".", "c", "o">>)
\* No "@".
EmailNoAt == Str(<<"a", "b", ".", "c", "o">>)
\* No domain segment: a single label after the "@".
EmailNoDomain == Str(<<"a", "@", "b">>)
\* 255 characters, otherwise well formed: a user part of 60 characters and
\* the domain a{63}.a{63}.a{63}.co
EmailLong ==
    Str([i \in 1..255 |->
            IF i = 61 THEN "@"
            ELSE IF i \in {125, 189, 253} THEN "."
            ELSE IF i = 254 THEN "c"
            ELSE IF i = 255 THEN "o"
            ELSE "a"])

PhoneA == Str(<<"2", "0", "2", "5", "5", "5", "0", "1", "2", "3">>)
\* The same number as PhoneA in another format.
PhoneAFmt ==
    Str(<<"(", "2", "0", "2", ")", " ", "5", "5", "5", "-", "0", "1", "2", "3">>)
PhoneBlank == Str(<<" ", " ">>)
PhoneBad == Str(<<"1", "2", "3", "4", "5">>)

\* The (email, phone) fields of the subscribe requests: both absent; a
\* valid email with a phone that is absent, blank, valid or invalid; a phone
\* alone that is valid (in two formats), blank or invalid; and each kind of
\* invalid email.
SubscribeInputs ==
    {<<Null, Null>>,
     <<EmailA, Null>>, <<EmailA, PhoneBlank>>,
     <<EmailA, PhoneA>>, <<EmailA, PhoneBad>>,
     <<Null, PhoneA>>, <<Null, PhoneAFmt>>,
     <<Null, PhoneBlank>>, <<Null, PhoneBad>>,
     <<EmailNoAt, Null>>, <<EmailNoDomain, PhoneA>>, <<EmailLong, Null>>}
\* The email field of the unsubscribe requests (EmailB is never subscribed).
UnsubscribeEmails == {Null, EmailA, EmailB}

(***************************************************************************)
(* State.                                                                  *)
(*   rows  the table subscribers, in insertion order                       *)
(*   reqs  the bag of the requests with a callback pending                 *)
(*   last  the request whose handling finished last, as it ended           *)
(*   nreq  requests accepted so far                                        *)
(*   proc  the server process: "running", "closing" (SIGINT received,      *)
(*         db.close called) or "exited"                                    *)
(*   env   the configuration of the process (process.env): the messaging-  *)
(*         service identifier and the fixed sender number                  *)
(*   timer the CountdownTimer of the page                                  *)
(*   form  the SubscriptionForm of the page                                *)
(***************************************************************************)
VARIABLES rows, reqs, last, nreq, proc, env, timer, form

vars == <<rows, reqs, last, nreq, proc, env, timer, form>>

\* No message: msgParams before insertSubscriber builds it.  A field that
\* the object does not carry (or carries as undefined) is Null.
NoMsg == [messagingServiceSid |-> Null, from |-> Null, to |-> Null]

\* A request as it arrives.  pc is the callback the request waits
\* for: "get" the db.get of subscribe, "ins" the INSERT, "sms" the provider
\* call, "upd" an UPDATE, "cnt" the COUNT query, "done" nothing.  status is
\* the HTTP status sent (0: no response yet), reply the message sent,
\* responses the number of responses sent on the request's res object,
\* msg the msgParams client.messages.create was called with.
\* inserted, sms (send attempts), smsErr, fault, overlap, pre and post
\* record what happened while the request was handled: fault is a storage
\* operation that returned an error other than a constraint violation, pre
\* the table when the request arrived, post the table when its response
\* was sent, overlap whether another request was pending at some moment of
\* its handling, late whether it arrived after SIGINT.
Idle ==
    [kind |-> "idle", email |-> Null, phone |-> Null, from |-> Null,
     body |-> Null, pc |-> "done", status |-> 0, reply |-> "",
     responses |-> 0, msg |-> NoMsg,
     phoneE164 |-> Null, subscriberId |-> 0, count |-> 0,
     inserted |-> FALSE, sms |-> 0, smsErr |-> FALSE, fault |-> FALSE,
     overlap |-> FALSE, late |-> FALSE, pre |-> <<>>, post |-> <<>>]

Pending(r) == r.pc # "done"

\* NewRow with is_active DEFAULT 0.
NewRowInactive(rs, email, phone, phoneE164) ==
    [id |-> Len(rs) + 1, email |-> email, phone |-> phone,
     phone_e164 |-> phoneE164, opted_out |-> FALSE, is_active |-> FALSE,
     created_at |-> Len(rs) + 1]

\* CREATE TABLE subscribers: opted_out DEFAULT 0, is_active DEFAULT 1,
\* id INTEGER PRIMARY KEY AUTOINCREMENT (rows are never deleted, so the next
\* id is the number of rows plus one), created_at DEFAULT CURRENT_TIMESTAMP
\* (the clock of the model counts the INSERTs).
NewRow(rs, email, phone, phoneE164) ==
    [id |-> Len(rs) + 1, email |-> email, phone |-> phone,
     phone_e164 |-> phoneE164, opted_out |-> FALSE, is_active |-> TRUE,
     created_at |-> Len(rs) + 1]

\* UNIQUE(email, phone): SQLite treats NULLs as distinct from every value,
\* other NULLs included, so only rows whose two columns are both non-NULL
\* can collide.
UniqueViolation(rs, email, phone) ==
    \E k \in 1..Len(rs) :
        /\ ~email.nul /\ ~phone.nul
        /\ ~rs[k].email.nul /\ ~rs[k].phone.nul
        /\ rs[k].email = email
        /\ rs[k].phone = phone

\* SELECT id FROM subscribers WHERE email = ?
SelectByEmail(rs, email) ==
    {k \in 1..Len(rs) : ~rs[k].email.nul /\ rs[k].email = email}

\* SELECT COUNT(*) FROM subscribers WHERE is_active = 1
ActiveCount(rs) == Cardinality({k \in 1..Len(rs) : rs[k].is_active})

\* UpdateInactive that sets opted_out as well (SET is_active = 0,
\* opted_out = 1).
UpdateInactiveOptsOut(rs, email) ==
    [k \in 1..Len(rs) |->
        IF k \in SelectByEmail(rs, email)
        THEN [rs[k] EXCEPT !.is_active = FALSE, !.opted_out = TRUE]
        ELSE rs[k]]

\* UpdateInactive without its WHERE clause (UPDATE subscribers SET
\* is_active = 0).
UpdateInactiveAll(rs, email) ==
    [k \in 1..Len(rs) |-> [rs[k] EXCEPT !.is_active = FALSE]]

\* UPDATE subscribers SET is_active = 0 WHERE email = ?
UpdateInactive(rs, email) ==
    [k \in 1..Len(rs) |->
        IF k \in SelectByEmail(rs, email)
        THEN [rs[k] EXCEPT !.is_active = FALSE]
        ELSE rs[k]]

\* The rows an UPDATE ... WHERE phone_e164 = ? matches.
SelectByE164(rs, from) ==
    {k \in 1..Len(rs) : ~rs[k].phone_e164.nul /\ rs[k].phone_e164 = from}

\* UpdateOptedOut matching the raw phone column (WHERE phone = ?).
UpdateOptedOutByPhone(rs, from, v) ==
    [k \in 1..Len(rs) |->
        IF ~rs[k].phone.nul /\ rs[k].phone = from
        THEN [rs[k] EXCEPT !.opted_out = v]
        ELSE rs[k]]

\* UpdateOptedOut that makes the row active again on START (SET opted_out
\* = 0, is_active = 1).
UpdateOptedOutReactivates(rs, from, v) ==
    [k \in 1..Len(rs) |->
        IF k \in SelectByE164(rs, from)
        THEN [rs[k] EXCEPT !.opted_out = v, !.is_active = @ \/ ~v]
        ELSE rs[k]]

\* UPDATE subscribers SET opted_out = v WHERE phone_e164 = ?
UpdateOptedOut(rs, from, v) ==
    [k \in 1..Len(rs) |->
        IF k \in SelectByE164(rs, from)
        THEN [rs[k] EXCEPT !.opted_out = v]
        ELSE rs[k]]

\* An instant or a distance in milliseconds: s * 1000 + ms, 0 <= ms < 1000
\* (the pair keeps distances of a hundred days and more in range).
Time(s, ms) == [s |-> s, ms |-> ms]

\* The four display slots, in the order updateTimer writes them.
SlotNames == <<"days", "hours", "minutes", "seconds">>
SlotSet == {SlotNames[i] : i \in 1..4}

\* The page before new CountdownTimer(...): no timer object.  elements are
\* the slots document.getElementById finds, text their textContent, writes
\* the assignments to a textContent so far, intervalId 0 is undefined,
\* active an interval that is scheduled and not cleared, onEnd whether
\* this.onEnd is a function, threw an exception that left the constructor.
NoTimer ==
    [variant |-> 0, built |-> FALSE, targetDate |-> Time(0, 0),
     now |-> Time(0, 0), onEnd |-> FALSE, elements |-> {},
     text |-> [n \in SlotSet |-> <<>>], writes |-> 0, intervalId |-> 0,
     active |-> FALSE, onEndCalls |-> 0, threw |-> FALSE, ticks |-> 0]

\* The label of the submit control in the page.
BtnLabel == "SUBSCRIBE"

\* The page before new SubscriptionForm(): email and phone are the values
\* of the two inputs, pending the bag of handleSubmit calls awaiting
\* submitToAPI (each with its originalText and its email), fetches the calls
\* of fetch so far, resets the calls of form.reset(), outcome what the last
\* handleSubmit did, listening whether the submit listener is attached,
\* hasBtn whether the page has the control .subscribe-btn, msgTimer a
\* pending timer of showMessage, emailType the type attribute of the email
\* input.
NoForm ==
    [variant |-> 0, emailType |-> "text", email |-> <<>>, phone |-> <<>>, btnText |-> BtnLabel,
     btnDisabled |-> FALSE, message |-> "", isError |-> FALSE,
     msgTimer |-> FALSE, listening |-> FALSE, hasBtn |-> FALSE,
     threw |-> FALSE, fetches |-> 0, pending |-> EmptyBag, submits |-> 0,
     inputs |-> 0, resets |-> 0, outcome |-> "none"]

\* TWILIO_MESSAGING_SERVICE_SID and TWILIO_FROM_NUMBER when they are set.
ServiceSid == Str(<<"M", "G", "1">>)
FromNumber == Str(<<"+", "1", "2", "0", "2", "5", "5", "5", "0", "1", "0", "0">>)

\* The configurations of the process: each variable unset (Null) or set;
\* the identifier may also be set to the empty string.
Envs ==
    [sid : {Null, Str(<<>>), ServiceSid}, from : {Null, FromNumber}]

\* The state after start-up under the configuration e.
InitWith(e) ==
    /\ rows = <<>>
    /\ reqs = EmptyBag
    /\ last = Idle
    /\ nreq = 0
    /\ proc = "running"
    /\ env = e
    /\ timer = NoTimer
    /\ form = NoForm

\* The service deployed with both the identifier and the sender number.
Init == InitWith([sid |-> ServiceSid, from |-> FromNumber])

\* The page script is not part of a step of the server.
Page == <<timer, form>>

\* A request can arrive: the listener is open as long as the process lives.
Free ==
    /\ nreq < MaxRequests
    /\ BagCardinality(reqs) < MaxInFlight
    /\ proc # "exited"

\* The pending requests, each marked as overlapping another one.
Overlapped(B) ==
    LET mark(x) == [x EXCEPT !.overlap = TRUE]
        clear(x) == [x EXCEPT !.overlap = FALSE]
    IN  [y \in {mark(x) : x \in BagToSet(B)} |->
            CopiesIn(y, B) + CopiesIn(clear(y), B)]

\* The handler has run its synchronous part and left the request as r: r
\* joins the pending requests when a callback is pending, else its
\* handling is over.  Every request pending at that moment overlaps it.
Accept(r) ==
    LET rr == [r EXCEPT !.overlap = (reqs # EmptyBag), !.pre = rows,
                        !.late = (proc = "closing")]
    IN  /\ reqs' = IF Pending(rr)
                   THEN Overlapped(reqs) (+) SetToBag({rr})
                   ELSE Overlapped(reqs)
        /\ last' = IF Pending(rr) THEN last ELSE rr
        /\ nreq' = nreq + 1
        /\ UNCHANGED <<proc, env, Page>>

\* The last callback of the pending request r has run and left it as r2.
Finish(r, r2) ==
    /\ proc # "exited"
    /\ reqs' = reqs (-) SetToBag({r})
    /\ last' = [r2 EXCEPT !.pc = "done"]
    /\ UNCHANGED <<proc, env, Page>>

\* A callback of the pending request r has run and left it as r2, with
\* another callback pending.
Continue(r, r2) ==
    /\ proc # "exited"
    /\ reqs' = (reqs (-) SetToBag({r})) (+) SetToBag({r2})
    /\ last' = last
    /\ UNCHANGED <<proc, env, Page>>

\* res.status(code).json({message}): the response of request r.
Respond(r, code, msg, rs) ==
    [r EXCEPT !.status = code, !.reply = msg, !.post = rs,
              !.responses = r.responses + 1]

(***************************************************************************)
(* GET /api/health (src/server.js:89-96) and POST /api/sms/status          *)
(* (src/server.js:325-328): answered at once, without storage.             *)
(***************************************************************************)
Health ==
    /\ Free
    /\ Accept(Respond([Idle EXCEPT !.kind = "health"], 200, "OK", rows))
    /\ UNCHANGED rows

SmsStatus ==
    /\ Free
    /\ Accept(Respond([Idle EXCEPT !.kind = "status"], 204, "", rows))
    /\ UNCHANGED rows

(***************************************************************************)
(* POST /api/subscribe (src/server.js:101-211).                            *)
(***************************************************************************)
MsgRequired == "Either email address or phone number is required"
MsgBadEmail == "Please provide a valid email address"
MsgBadPhone == "Invalid phone number format"
MsgConflict == "This email is already subscribed"
MsgInternal == "Internal server error"
MsgInsertFailed == "Failed to subscribe. Please try again."
MsgViaEmail == "Successfully subscribed! You'll receive updates about our upcoming drop via email."
MsgViaSMS == "Successfully subscribed! You'll receive updates about our upcoming drop via SMS."

\* if (phone && String(phone).trim()): whether normalization is attempted.
PhoneGiven(phone) == Truthy(phone) /\ trim(phone.s) # <<>>

\* let phoneE164 = null; ... phoneE164 = toE164(String(phone).trim(), 'US')
NormalizePhone(phone) ==
    IF PhoneGiven(phone) THEN toE164(Str(trim(phone.s))) ELSE Null

\* The validation of the handler: the message of the 400 response, or ""
\* when the request passes.
SubscribeValidate(email, phone) ==
    IF ~Truthy(email) /\ ~Truthy(phone) THEN MsgRequired
    ELSE IF Truthy(email) /\ ~validateEmail(email) THEN MsgBadEmail
    ELSE IF PhoneGiven(phone) /\ NormalizePhone(phone).nul THEN MsgBadPhone
    ELSE ""

\* The email argument insertSubscriber is called with: the email, or ''
\* when none was given.
InsertEmail(email) == IF Truthy(email) THEN email ELSE Str(<<>>)

\* EmailExists looking at active rows only (WHERE email = ? AND is_active = 1).
EmailExistsActive(rs, email) ==
    \E k \in SelectByEmail(rs, email) : rs[k].is_active

\* if (row): the existence check of the db.get callback.
EmailExists(rs, email) == SelectByEmail(rs, email) # {}

\* INSERT INTO subscribers (email, phone, phone_e164) VALUES (?, ?, ?)
insertSubscriber(rs, email, phone, phoneE164) ==
    Append(rs, NewRow(rs, email, phone, phoneE164))

\* MsgParams that takes the fixed sender number whenever one is set.
MsgParamsPreferFrom(e, phoneE164) ==
    IF Truthy(e.from)
    THEN [messagingServiceSid |-> Null, from |-> e.from, to |-> phoneE164]
    ELSE [messagingServiceSid |-> e.sid, from |-> Null, to |-> phoneE164]

\* const msgParams = process.env.TWILIO_MESSAGING_SERVICE_SID
\*     ? {messagingServiceSid, to, body} : {from, to, body}
MsgParams(e, phoneE164) ==
    IF Truthy(e.sid)
    THEN [messagingServiceSid |-> e.sid, from |-> Null, to |-> phoneE164]
    ELSE [messagingServiceSid |-> Null, from |-> e.from, to |-> phoneE164]

\* const contactMethod = email ? 'email' : 'SMS'
SuccessMessage(email) == IF Truthy(email) THEN MsgViaEmail ELSE MsgViaSMS

\* The synchronous part of the handler: validation, then the db.get of the
\* existence check (an email was given) or the INSERT is queued.
Subscribe(email, phone) ==
    /\ Free
    /\ LET r == [Idle EXCEPT !.kind = "subscribe", !.email = email,
                             !.phone = phone]
           msg == SubscribeValidate(email, phone)
       IN  IF msg # ""
           THEN Accept(Respond(r, 400, msg, rows))
           ELSE Accept([r EXCEPT !.phoneE164 = NormalizePhone(phone),
                                 !.pc = IF Truthy(email) THEN "get"
                                        ELSE "ins"])
    /\ UNCHANGED rows

\* SubscribeGetCallback whose conflict branch does not return: the 409 is
\* sent and insertSubscriber is called all the same.
SubscribeGetCallbackNoReturn(r) ==
    /\ r.kind = "subscribe"
    /\ r.pc = "get"
    /\ IF EmailExists(rows, r.email)
       THEN Continue(r, [Respond(r, 409, MsgConflict, rows) EXCEPT !.pc = "ins"])
       ELSE Continue(r, [r EXCEPT !.pc = "ins"])
    /\ UNCHANGED <<rows, nreq>>

\* The db.get callback: err, a row found, or insertSubscriber is called.
SubscribeGetCallback(r) ==
    /\ r.kind = "subscribe"
    /\ r.pc = "get"
    /\ IF EmailExists(rows, r.email)
       THEN Finish(r, Respond(r, 409, MsgConflict, rows))
       ELSE Continue(r, [r EXCEPT !.pc = "ins"])
    /\ UNCHANGED <<rows, nreq>>

\* The db.get fails (if (err)): 500.
SubscribeGetError(r) ==
    /\ r.kind = "subscribe"
    /\ r.pc = "get"
    /\ Finish(r, [Respond(r, 500, MsgInternal, rows) EXCEPT !.fault = TRUE])
    /\ UNCHANGED <<rows, nreq>>

\* The INSERT runs and its callback is called: a constraint violation is
\* answered 500; otherwise the row exists, and the confirmation SMS is
\* awaited when phoneE164 is set, else the success response is sent.
SubscribeInsertCallback(r) ==
    /\ r.kind = "subscribe"
    /\ r.pc = "ins"
    /\ LET email == InsertEmail(r.email)
           rs == insertSubscriber(rows, email, r.phone, r.phoneE164)
           ok == [r EXCEPT !.inserted = TRUE, !.subscriberId = Len(rs)]
       IN  IF UniqueViolation(rows, email, r.phone)
           THEN /\ Finish(r, Respond(r, 500, MsgInsertFailed, rows))
                /\ UNCHANGED rows
           ELSE /\ rows' = rs
                /\ IF Truthy(r.phoneE164)
                   THEN Continue(r, [ok EXCEPT
                                       !.pc = "sms", !.sms = r.sms + 1,
                                       !.msg = MsgParams(env, r.phoneE164)])
                   ELSE Finish(r, Respond(ok, 200, SuccessMessage(email), rs))
    /\ UNCHANGED nreq

\* The INSERT fails for another reason than the constraint.
SubscribeInsertError(r) ==
    /\ r.kind = "subscribe"
    /\ r.pc = "ins"
    /\ Finish(r, [Respond(r, 500, MsgInsertFailed, rows) EXCEPT !.fault = TRUE])
    /\ UNCHANGED <<rows, nreq>>

\* SmsSettledStatus without the catch block: a send failure surfaces.
SmsSettledStatusThrown(threw) == IF threw THEN 500 ELSE 200

\* The status sent once the provider call has settled: the catch block
\* swallows a send failure.
SmsSettledStatus(threw) == 200

\* await client.messages.create(msgParams) settles: it resolves, or it
\* throws and the catch block logs the error.  Then res.json(success).
SubscribeSmsSettled(r, threw) ==
    /\ r.kind = "subscribe"
    /\ r.pc = "sms"
    /\ LET r2 == [r EXCEPT !.smsErr = threw]
       IN  Finish(r, Respond(r2, SmsSettledStatus(threw),
                             SuccessMessage(InsertEmail(r.email)), rows))
    /\ UNCHANGED <<rows, nreq>>

(***************************************************************************)
(* GET /api/subscribers/count (src/server.js:214-229).                     *)
(***************************************************************************)
Count ==
    /\ Free
    /\ Accept([Idle EXCEPT !.kind = "count", !.pc = "cnt"])
    /\ UNCHANGED rows

CountCallback(r) ==
    /\ r.kind = "count"
    /\ r.pc = "cnt"
    /\ Finish(r, [Respond(r, 200, "", rows) EXCEPT
                     !.count = ActiveCount(rows)])
    /\ UNCHANGED <<rows, nreq>>

CountError(r) ==
    /\ r.kind = "count"
    /\ r.pc = "cnt"
    /\ Finish(r, [Respond(r, 500, MsgInternal, rows) EXCEPT !.fault = TRUE])
    /\ UNCHANGED <<rows, nreq>>

(***************************************************************************)
(* POST /api/unsubscribe (src/server.js:232-267).                          *)
(***************************************************************************)
MsgEmailRequired == "Valid email address is required"
MsgNotFound == "Email not found in our records"
MsgUnsubscribed == "Successfully unsubscribed"

\* if (!email || !validateEmail(email)) 400, else the UPDATE is queued.
Unsubscribe(email) ==
    /\ Free
    /\ LET r == [Idle EXCEPT !.kind = "unsubscribe", !.email = email]
       IN  IF ~Truthy(email) \/ ~validateEmail(email)
           THEN Accept(Respond(r, 400, MsgEmailRequired, rows))
           ELSE Accept([r EXCEPT !.pc = "upd"])
    /\ UNCHANGED rows

\* this.changes: the rows the UPDATE matched, whatever their is_active was.
UnsubscribeChanges(rs, email) == Cardinality(SelectByEmail(rs, email))

\* The UPDATE runs and its callback is called.
UnsubscribeCallback(r) ==
    /\ r.kind = "unsubscribe"
    /\ r.pc = "upd"
    /\ LET rs == UpdateInactive(rows, r.email)
       IN  /\ rows' = rs
           /\ IF UnsubscribeChanges(rows, r.email) = 0
              THEN Finish(r, Respond(r, 404, MsgNotFound, rs))
              ELSE Finish(r, Respond(r, 200, MsgUnsubscribed, rs))
    /\ UNCHANGED nreq

UnsubscribeError(r) ==
    /\ r.kind = "unsubscribe"
    /\ r.pc = "upd"
    /\ Finish(r, [Respond(r, 500, MsgInternal, rows) EXCEPT !.fault = TRUE])
    /\ UNCHANGED <<rows, nreq>>

(***************************************************************************)
(* POST /api/sms/inbound (src/server.js:270-322).                          *)
(***************************************************************************)
KwStop == <<"S", "T", "O", "P">>
KwStopAll == <<"S", "T", "O", "P", " ", "A", "L", "L">>
KwUnsubscribe == <<"U", "N", "S", "U", "B", "S", "C", "R", "I", "B", "E">>
KwCancel == <<"C", "A", "N", "C", "E", "L">>
KwEnd == <<"E", "N", "D">>
KwQuit == <<"Q", "U", "I", "T">>
KwHelp == <<"H", "E", "L", "P">>
KwStart == <<"S", "T", "A", "R", "T">>

StopFamily == {KwStop, KwStopAll, KwUnsubscribe, KwCancel, KwEnd, KwQuit}

MsgStop == "<Response><Message>You've been unsubscribed. No more messages will be sent. Reply START to resubscribe.</Message></Response>"
MsgHelp == "<Response><Message>House of Reign: For help, reply HELP. To stop, reply STOP. Msg&data rates may apply.</Message></Response>"
MsgStart == "<Response><Message>You're resubscribed. You'll receive updates from House of Reign.</Message></Response>"

\* const body = (req.body.Body || '').trim().toUpperCase()
NormalizeBody(body) ==
    toUpperCase(trim(IF Truthy(body) THEN body.s ELSE <<>>))

\* IsStop by substring (body.includes(keyword)).
IsStopSubstring(b) == \E kw \in StopFamily : includes(b, kw)

\* body === 'STOP' || body === 'STOP ALL' || ... || body === 'QUIT'
IsStop(b) == b \in StopFamily
\* body === 'HELP'
IsHelp(b) == b = KwHelp
\* body === 'START'
IsStart(b) == b = KwStart

\* The handler: the response is sent at once; for a STOP-family keyword or
\* START the UPDATE is queued with db.run and not awaited.
SmsInbound(from, body) ==
    /\ Free
    /\ LET r == [Idle EXCEPT !.kind = "inbound", !.from = from, !.body = body]
           b == NormalizeBody(body)
       IN  IF ~Truthy(from) THEN Accept(Respond(r, 400, "", rows))
           ELSE IF IsStop(b)
                THEN Accept([Respond(r, 200, MsgStop, rows) EXCEPT
                                !.pc = "upd"])
           ELSE IF IsHelp(b) THEN Accept(Respond(r, 200, MsgHelp, rows))
           ELSE IF IsStart(b)
                THEN Accept([Respond(r, 200, MsgStart, rows) EXCEPT
                                !.pc = "upd"])
           ELSE Accept(Respond(r, 204, "", rows))
    /\ UNCHANGED rows

\* The queued UPDATE runs: opted_out = 1 for a STOP-family keyword, 0 for
\* START, on the rows whose phone_e164 is the sender.
SmsInboundUpdate(r) ==
    /\ r.kind = "inbound"
    /\ r.pc = "upd"
    /\ rows' = UpdateOptedOut(rows, r.from, IsStop(NormalizeBody(r.body)))
    /\ Finish(r, r)
    /\ UNCHANGED nreq

\* The queued UPDATE fails: the callback logs the error.
SmsInboundUpdateError(r) ==
    /\ r.kind = "inbound"
    /\ r.pc = "upd"
    /\ Finish(r, [r EXCEPT !.fault = TRUE])
    /\ UNCHANGED <<rows, nreq>>

\* Twilio sends the sender in E.164.
FromA == toE164(PhoneA)
\* A number no subscribe request of the model carries.
FromB == Str(<<"+", "1", "3", "1", "2", "5", "5", "5", "0", "1", "8", "8">>)

\* The bodies that are a keyword in another case or padded with blanks.
BodyStopPadded == Str(<<" ", "s", "t", "o", "p", " ">>)
\* A keyword followed by a line feed, and one between a tab and a carriage
\* return.
BodyStopNewline == Str(<<"S", "T", "O", "P", "\n">>)
BodyQuitTabbed == Str(<<"\t", "q", "u", "i", "t", "\r">>)
\* A text of letters that are in no keyword.
\* A keyword followed by a vertical tab.
BodyEndVerticalTab == Str(<<"e", "n", "d", VerticalTab>>)
BodyOther == Str(<<"f", "g", "j", "k", "m", "v", "w", "x", "y", "z">>)
BodyHelpLower == Str(<<"h", "e", "l", "p">>)
BodyStartPadded == Str(<<"S", "t", "a", "r", "t", " ">>)
\* The bodies that contain a keyword without being one.
BodyStopPlease == Str(<<"S", "T", "O", "P", " ", "P", "L", "E", "A", "S", "E">>)
BodyRestart == Str(<<"R", "E", "S", "T", "A", "R", "T">>)

\* The bodies of the inbound messages: the keywords, forms of them in
\* another case or padded with blanks, and texts that contain a keyword.
BodyInputs ==
    {Null,
     Str(KwStop),
     BodyStopPadded,
     BodyStopNewline,
     BodyQuitTabbed,
     BodyEndVerticalTab,
     BodyOther,
     Str(KwStopAll),
     Str(KwUnsubscribe),
     Str(KwCancel),
     Str(KwEnd),
     Str(KwQuit),
     Str(KwHelp),
     BodyHelpLower,
     Str(KwStart),
     BodyStartPadded,
     BodyStopPlease,
     BodyRestart}

\* The (From, Body) pairs of the inbound messages of the service: from the
\* number of PhoneA a keyword of each family, a text that contains one and
\* no body; STOP without a sender.
InboundInputs ==
    ({FromA} \X {Null, Str(KwStop), Str(KwStart), Str(KwHelp), BodyStopPlease})
        \cup {<<Null, Str(KwStop)>>}

(***************************************************************************)
(* The service.                                                            *)
(***************************************************************************)
Next ==
    \/ Health
    \/ \E m \in SubscribeInputs : Subscribe(m[1], m[2])
    \/ Count
    \/ \E email \in UnsubscribeEmails : Unsubscribe(email)
    \/ \E m \in InboundInputs : SmsInbound(m[1], m[2])
    \/ SmsStatus
    \/ \E r \in BagToSet(reqs) :
           \/ SubscribeGetCallback(r)
           \/ SubscribeGetError(r)
           \/ SubscribeInsertCallback(r)
           \/ SubscribeInsertError(r)
           \/ \E threw \in BOOLEAN : SubscribeSmsSettled(r, threw)
           \/ CountCallback(r)
           \/ CountError(r)
           \/ UnsubscribeCallback(r)
           \/ UnsubscribeError(r)
           \/ SmsInboundUpdate(r)
           \/ SmsInboundUpdateError(r)

Spec == Init /\ [][Next]_vars

\* A callback of a storage operation runs.  SQLite completes every
\* operation it was handed; the provider call of the confirmation SMS is a
\* network call that may never settle.
StorageStep ==
    \E r \in BagToSet(reqs) :
        \/ SubscribeGetCallback(r)
        \/ SubscribeGetError(r)
        \/ SubscribeInsertCallback(r)
        \/ SubscribeInsertError(r)
        \/ CountCallback(r)
        \/ CountError(r)
        \/ UnsubscribeCallback(r)
        \/ UnsubscribeError(r)
        \/ SmsInboundUpdate(r)
        \/ SmsInboundUpdateError(r)

\* The service with storage that answers: every pending storage callback is
\* eventually called; nothing is assumed of the SMS provider.
LiveSpec == Spec /\ WF_vars(StorageStep)

(***************************************************************************)
(* Shutdown (src/server.js:347-358).                                       *)
(***************************************************************************)
\* process.on('SIGINT'): db.close(callback) is called.  The handler does not
\* close the listener of app.listen, so requests are accepted until the
\* process exits.
Sigint ==
    /\ proc = "running"
    /\ proc' = "closing"
    /\ UNCHANGED <<rows, reqs, last, nreq, env, Page>>

\* The callback of db.close: process.exit(0).  The requests that are
\* pending at that moment are never answered.
DbCloseCallback ==
    /\ proc = "closing"
    /\ proc' = "exited"
    /\ UNCHANGED <<rows, reqs, last, nreq, env, Page>>

ShutdownNext == Next \/ Sigint \/ DbCloseCallback

ShutdownSpec == Init /\ [][ShutdownNext]_vars

\* The (From, Body) pairs of the SMS side: every body of BodyInputs from the
\* number of PhoneA, and STOP and START from the number FromB that has no
\* row.
KeywordInputs ==
    ({FromA} \X BodyInputs) \cup ({FromB} \X {Str(KwStop), Str(KwStart)})

\* The SMS side of the service alone: the number of PhoneA subscribes, and
\* the messages of KeywordInputs arrive.
KeywordNext ==
    \/ Subscribe(Null, PhoneA)
    \/ \E m \in KeywordInputs : SmsInbound(m[1], m[2])
    \/ \E r \in BagToSet(reqs) :
           \/ SubscribeInsertCallback(r)
           \/ SubscribeInsertError(r)
           \/ \E threw \in BOOLEAN : SubscribeSmsSettled(r, threw)
           \/ SmsInboundUpdate(r)
           \/ SmsInboundUpdateError(r)

KeywordSpec == Init /\ [][KeywordNext]_vars

\* The confirmation SMS alone, under every configuration of the process:
\* subscribe requests that carry a valid phone, with and without an email.
SenderInit == \E e \in Envs : InitWith(e)

SenderNext ==
    \/ \E m \in {<<Null, PhoneA>>, <<Null, PhoneAFmt>>, <<EmailA, PhoneA>>} :
           Subscribe(m[1], m[2])
    \/ \E r \in BagToSet(reqs) :
           \/ SubscribeGetCallback(r)
           \/ SubscribeGetError(r)
           \/ SubscribeInsertCallback(r)
           \/ SubscribeInsertError(r)
           \/ \E threw \in BOOLEAN : SubscribeSmsSettled(r, threw)

SenderSpec == SenderInit /\ [][SenderNext]_vars

\* The four endpoints that answer from callbacks, with one request for each
\* path of a handler: subscribe requests that fail each validation, that
\* carry an email (check, then INSERT), a phone (INSERT, then SMS) or both;
\* unsubscribe requests with and without an email; the count; inbound
\* messages without sender, with a keyword of each family and with none.
AnswerNext ==
    \/ \E m \in {<<Null, Null>>, <<EmailNoAt, Null>>, <<EmailA, PhoneBad>>,
                  <<EmailA, Null>>, <<Null, PhoneA>>, <<EmailA, PhoneA>>} :
           Subscribe(m[1], m[2])
    \/ Count
    \/ \E email \in {Null, EmailA} : Unsubscribe(email)
    \/ \E m \in InboundInputs : SmsInbound(m[1], m[2])
    \/ \E r \in BagToSet(reqs) :
           \/ SubscribeGetCallback(r)
           \/ SubscribeGetError(r)
           \/ SubscribeInsertCallback(r)
           \/ SubscribeInsertError(r)
           \/ \E threw \in BOOLEAN : SubscribeSmsSettled(r, threw)
           \/ CountCallback(r)
           \/ CountError(r)
           \/ UnsubscribeCallback(r)
           \/ UnsubscribeError(r)
           \/ SmsInboundUpdate(r)
           \/ SmsInboundUpdateError(r)

AnswerSpec == Init /\ [][AnswerNext]_vars

(***************************************************************************)
(* CountdownTimer of the page script: variant 2 at src/server.js:370-427,  *)
(* variant 1 at src/unnamed/part_000:2-46.                                 *)
(***************************************************************************)
\* this.targetDate - now
Minus(a, b) ==
    IF a.ms >= b.ms THEN Time(a.s - b.s, a.ms - b.ms)
    ELSE Time(a.s - b.s - 1, a.ms - b.ms + 1000)

\* distance <= 0 (variant 2) and distance < 0 (variant 1)
NonPositive(d) == d.s < 0 \/ (d.s = 0 /\ d.ms = 0)
Negative(d) == d.s < 0

\* Math.floor(d / k) and d % k for a distance d >= 0 and k a whole number
\* of seconds in milliseconds.
FloorDiv(d, k) == d.s \div (k \div 1000)
Mod(d, k) == Time(d.s % (k \div 1000), d.ms)

DigitChar(k) == <<"0", "1", "2", "3", "4", "5", "6", "7", "8", "9">>[k + 1]

\* String(num) of a non-negative integer.
RECURSIVE NumberToString(_)
NumberToString(n) ==
    IF n < 10 THEN <<DigitChar(n)>>
    ELSE NumberToString(n \div 10) \o <<DigitChar(n % 10)>>

\* str.padStart(n, c): c is put in front until the length is n; a longer
\* string is returned as it is.
RECURSIVE padStart(_, _, _)
padStart(str, n, c) ==
    IF Len(str) >= n THEN str ELSE padStart(<<c>> \o str, n, c)

\* padZero without the padding.
padZeroNone(num) == NumberToString(num)

\* return String(num).padStart(2, '0')
padZero(num) == padStart(NumberToString(num), 2, "0")

Zeros == <<"0", "0">>

\* The four values updateTimer computes from a distance that did not take
\* the branch of the finished countdown.
Display(distance) ==
    [n \in SlotSet |->
        CASE n = "days" -> padZero(FloorDiv(distance, 86400000))
          [] n = "hours" ->
                padZero(FloorDiv(Mod(distance, 86400000), 3600000))
          [] n = "minutes" ->
                padZero(FloorDiv(Mod(distance, 3600000), 60000))
          [] n = "seconds" ->
                padZero(FloorDiv(Mod(distance, 60000), 1000))]

\* The first slot, in the order of the assignments, that was not found
\* (5: every slot was found).
FirstMissing(elements) ==
    IF \A i \in 1..4 : SlotNames[i] \in elements THEN 5
    ELSE CHOOSE i \in 1..4 :
             /\ SlotNames[i] \notin elements
             /\ \A j \in 1..(i - 1) : SlotNames[j] \in elements

\* this.elements.days.textContent = ...; ...hours...; ...minutes...;
\* ...seconds...: the assignment to a slot that was not found (null) throws
\* a TypeError, and the assignments before it have been made.
WriteSlots(tm, vals) ==
    LET m == FirstMissing(tm.elements)
        before(n) == \E i \in 1..(m - 1) : SlotNames[i] = n
    IN  [tm EXCEPT !.text = [n \in SlotSet |->
                                IF before(n) THEN vals[n] ELSE tm.text[n]],
                   !.writes = tm.writes + (m - 1),
                   !.threw = tm.threw \/ (m <= 4)]

\* stop(): if (this.intervalId) clearInterval(this.intervalId)
stop(tm) == IF tm.intervalId # 0 THEN [tm EXCEPT !.active = FALSE] ELSE tm

\* setAll("00","00","00","00")
setAll(tm) == WriteSlots(tm, [n \in SlotSet |-> Zeros])

\* updateTimer(): variant 2 stops, shows zeros and calls onEnd when
\* distance <= 0; variant 1 shows zeros when distance < 0 and has neither
\* stop nor onEnd.
updateTimer(tm) ==
    LET distance == Minus(tm.targetDate, tm.now)
    IN  IF tm.variant = 2
        THEN IF NonPositive(distance)
             THEN LET shown == setAll(stop(tm))
                  IN  IF ~shown.threw /\ tm.onEnd
                      THEN [shown EXCEPT !.onEndCalls = shown.onEndCalls + 1]
                      ELSE shown
             ELSE WriteSlots(tm, Display(distance))
        ELSE IF Negative(distance)
             THEN setAll(tm)
             ELSE WriteSlots(tm, Display(distance))

\* start(): updateTimer(), then setInterval(..., 1000); variant 2 keeps the
\* id of the interval, variant 1 drops it.  An exception in updateTimer
\* leaves start before the interval is set.
start(tm) ==
    LET u == updateTimer(tm)
    IN  IF u.threw THEN u
        ELSE IF tm.variant = 2
             THEN [u EXCEPT !.intervalId = 1, !.active = TRUE]
             ELSE [u EXCEPT !.active = TRUE]

\* new CountdownTimer(targetDate, { onEnd }): variant 2 starts only when
\* every slot was found; variant 1 takes no options and always starts.
TimerConstruct(variant, targetDate, elements, onEnd) ==
    /\ ~timer.built
    /\ LET tm == [NoTimer EXCEPT !.variant = variant, !.built = TRUE,
                                 !.targetDate = targetDate,
                                 !.onEnd = (variant = 2 /\ onEnd),
                                 !.elements = elements]
       IN  timer' = IF variant = 2 /\ elements # SlotSet THEN tm
                    ELSE start(tm)
    /\ UNCHANGED <<rows, reqs, last, nreq, proc, env, form>>

\* A second passes and the interval callback runs updateTimer.
TimerTick ==
    /\ timer.active
    /\ timer.ticks < MaxTicks
    /\ timer' = updateTimer([timer EXCEPT !.now = Time(timer.now.s + 1,
                                                       timer.now.ms),
                                          !.ticks = timer.ticks + 1])
    /\ UNCHANGED <<rows, reqs, last, nreq, proc, env, form>>

\* The distances to the target at construction: whole days of 0 to 365,
\* with a rest of hours, minutes and seconds, and milliseconds; and targets
\* already passed.
TimerTargets ==
    {Time(d * 86400 + s, ms) :
        d \in {0, 1, 9, 10, 99, 100, 365},
        s \in {0, 1, 3661, 86399},
        ms \in {0, 999}}
    \cup {Time(-5, 0), Time(-1, 999)}

TimerNext ==
    \/ \E variant \in {1, 2}, targetDate \in TimerTargets,
          elements \in SUBSET SlotSet, onEnd \in BOOLEAN :
           TimerConstruct(variant, targetDate, elements, onEnd)
    \/ TimerTick

TimerSpec == Init /\ [][TimerNext]_vars

(***************************************************************************)
(* SubscriptionForm of the page script: variant 2 at                       *)
(* src/server.js:430-532, variant 1 at src/unnamed/part_000:49-175.        *)
(***************************************************************************)
MsgFormRequired == "Please enter either your email address or phone number."
MsgFormEmail == "Please enter a valid email address."
MsgFormPhone == "Please enter a valid 10-digit phone number."
MsgFormGeneric == "Sorry, there was an error. Please try again later."
BtnBusy == "SUBSCRIBING..."

\* emailRegex.test that accepts every string.
emailRegexTestAny(s) == TRUE

\* /^[^\s@]+@[^\s@]+\.[^\s@]+$/.test(s): one "@", no white space, and a
\* "." after the "@" with a character on each side of it.
emailRegexTest(s) ==
    \E i, j \in 1..Len(s) :
        /\ s[i] = "@" /\ s[j] = "."
        /\ 1 < i /\ i + 1 < j /\ j < Len(s)
        /\ \A k \in 1..Len(s) : k # i => s[k] \notin Whitespace \cup {"@"}

\* validateEmail of the form (variant 2: !!email && emailRegex.test(email)).
formValidateEmail(s) == s # <<>> /\ emailRegexTest(s)

\* validatePhone of variant 1: /^\d{10}$/.test(phone)
formValidatePhone(s) == Len(s) = 10 /\ \A i \in 1..Len(s) : s[i] \in DigitChars

\* The local validation of handleSubmit on the trimmed fields: the error
\* message shown, or "" when the request is sent.
FormValidate(variant, email, phone) ==
    IF email = <<>> /\ phone = <<>> THEN MsgFormRequired
    ELSE IF email # <<>> /\ ~formValidateEmail(email) THEN MsgFormEmail
    ELSE IF variant = 1 /\ phone # <<>> /\ ~formValidatePhone(phone)
         THEN MsgFormPhone
    ELSE ""

\* showMessage(message, isError): variant 2 starts the 5 s timer that
\* empties the live region for a success message only, variant 1 starts
\* the timer that removes the message for every message.
showMessage(f, message, isError) ==
    [f EXCEPT !.message = message, !.isError = isError,
              !.msgTimer = IF f.variant = 2 THEN f.msgTimer \/ ~isError
                           ELSE TRUE]

\* The success message of handleSubmit.
FormSuccess(variant, email) ==
    IF variant = 2
    THEN IF email # <<>>
         THEN "Successfully subscribed! You'll receive updates via email."
         ELSE "Successfully subscribed! You'll receive updates via phone."
    ELSE SuccessMessage(Str(email))

\* The message of the catch block: variant 2 shows err.message when it is
\* not empty, variant 1 always the generic text.
FormFailure(variant, errMessage) ==
    IF variant = 2 /\ errMessage # "" THEN errMessage ELSE MsgFormGeneric

\* new SubscriptionForm(): without the form element variant 2 returns and
\* variant 1 throws (this.form.addEventListener on null); otherwise the
\* submit listener is attached.
FormConstruct(variant, hasForm, hasBtn, emailType) ==
    /\ form.variant = 0
    /\ form' = [NoForm EXCEPT !.variant = variant, !.listening = hasForm,
                              !.emailType = emailType,
                              !.hasBtn = hasBtn,
                              !.threw = (variant = 1 /\ ~hasForm)]
    /\ UNCHANGED <<rows, reqs, last, nreq, proc, env, timer>>

\* The white space an input of type email strips from both ends of its
\* value (tab, line feed, form feed, carriage return, blank; not the
\* vertical tab).
AsciiWhitespace == {" ", "\t", "\n", "\f", "\r"}

RECURSIVE StripStart(_)
StripStart(s) ==
    IF s # <<>> /\ Head(s) \in AsciiWhitespace THEN StripStart(Tail(s)) ELSE s

RECURSIVE StripEnd(_)
StripEnd(s) ==
    IF s # <<>> /\ s[Len(s)] \in AsciiWhitespace
    THEN StripEnd(SubSeq(s, 1, Len(s) - 1))
    ELSE s

\* The types the email input of the page may have (the markup is not part
\* of the repository).
EmailInputTypes == {"text", "email"}

\* The characters of a line break.
LineBreakChars == {"\n", "\r"}

\* The text without the line breaks at its end.
RECURSIVE DropTrailingBreaks(_)
DropTrailingBreaks(s) ==
    IF s # <<>> /\ s[Len(s)] \in LineBreakChars
    THEN DropTrailingBreaks(SubSeq(s, 1, Len(s) - 1))
    ELSE s

\* The text with every line break (a carriage return followed by a line
\* feed, a carriage return alone, a line feed alone) turned into one blank.
RECURSIVE BreaksToBlanks(_)
BreaksToBlanks(s) ==
    IF s = <<>> THEN <<>>
    ELSE IF Len(s) >= 2 /\ s[1] = "\r" /\ s[2] = "\n"
    THEN <<" ">> \o BreaksToBlanks(SubSeq(s, 3, Len(s)))
    ELSE IF Head(s) \in LineBreakChars
    THEN <<" ">> \o BreaksToBlanks(Tail(s))
    ELSE <<Head(s)>> \o BreaksToBlanks(Tail(s))

\* this.emailInput.value after the user has entered the text (typed or
\* pasted) into the empty input: the line breaks at the end of the text are
\* dropped and every other line break becomes a blank, so that the input
\* holds no line feed and no carriage return; an input of type email holds
\* no white space at either end.
InputValue(emailType, typed) ==
    LET v == BreaksToBlanks(DropTrailingBreaks(typed))
    IN  IF emailType = "email" THEN StripEnd(StripStart(v)) ELSE v

\* The user edits the two inputs: the email input holds the value of the
\* text entered, and the input listener of the phone field keeps only its
\* digits.
FormInput(email, phone) ==
    /\ form.listening
    /\ form.inputs < MaxInputs
    /\ form' = [form EXCEPT !.email = InputValue(form.emailType, email),
                            !.phone = Digits(phone),
                            !.inputs = form.inputs + 1]
    /\ UNCHANGED <<rows, reqs, last, nreq, proc, env, timer>>

\* handleSubmit up to its await: the local validation, then the submit
\* control is relabelled and disabled and submitToAPI calls fetch.  Variant
\* 1 reads submitBtn.textContent without a check and throws when the control
\* is missing.
FormSubmit ==
    /\ form.listening
    /\ form.submits < MaxSubmits
    /\ LET email == trim(form.email)
           phone == trim(form.phone)
           msg == FormValidate(form.variant, email, phone)
           f == [form EXCEPT !.submits = form.submits + 1]
       IN  form' =
             IF msg # ""
             THEN [showMessage(f, msg, TRUE) EXCEPT !.outcome = "rejected"]
             ELSE IF ~form.hasBtn /\ form.variant = 1
             THEN [f EXCEPT !.threw = TRUE, !.outcome = "threw"]
             ELSE [f EXCEPT
                     !.btnText = IF form.hasBtn THEN BtnBusy ELSE @,
                     !.btnDisabled = form.hasBtn,
                     !.fetches = form.fetches + 1,
                     !.pending = form.pending (+)
                         SetToBag({[email |-> email,
                                    originalText |->
                                        IF form.hasBtn THEN form.btnText
                                        ELSE ""]}),
                     !.outcome = "sent"]
    /\ UNCHANGED <<rows, reqs, last, nreq, proc, env, timer>>

\* submitToAPI settles for the pending call p: it resolves (the success
\* message is shown and the form is reset) or it throws an error with the
\* message errMessage; the finally block restores the label the call read
\* and enables the control.
FormSettled(p, ok, errMessage) ==
    /\ p \in BagToSet(form.pending)
    /\ LET f == [form EXCEPT !.pending = form.pending (-) SetToBag({p}),
                             !.btnText = IF form.hasBtn THEN p.originalText
                                         ELSE @,
                             !.btnDisabled = FALSE]
       IN  form' =
             IF ok
             THEN [showMessage(f, FormSuccess(form.variant, p.email), FALSE)
                      EXCEPT !.email = <<>>, !.phone = <<>>,
                             !.resets = form.resets + 1]
             ELSE showMessage(f, FormFailure(form.variant, errMessage), TRUE)
    /\ UNCHANGED <<rows, reqs, last, nreq, proc, env, timer>>

\* The 5 s timer of showMessage fires: the message is removed.
FormMessageTimeout ==
    /\ form.msgTimer
    /\ form' = [form EXCEPT !.message = "", !.msgTimer = FALSE]
    /\ UNCHANGED <<rows, reqs, last, nreq, proc, env, timer>>

\* The text the user enters into the email input and into the phone input,
\* pasted text with line breaks included.
FormEmails ==
    {<<>>, <<" ", " ">>, EmailA.s, <<" ">> \o EmailA.s \o <<" ">>,
     <<"\t">> \o EmailA.s \o <<"\n">>,
     EmailNoAt.s, EmailNoDomain.s, <<"a", " ", "b", "@", "c", ".", "d">>,
     <<"a", "\t", "b", "@", "c", ".", "d">>,
     <<"a", VerticalTab, "b", "@", "c", ".", "d">>,
     <<"a", "\n", "b", "@", "c", ".", "d">>,
     <<"a", "\r", "\n", "b", "@", "c", ".", "d">>,
     <<"\n">> \o EmailA.s \o <<"\r", "\n">>}
FormPhones == {<<>>, PhoneA.s, PhoneAFmt.s, PhoneBad.s}

FormNext ==
    \/ \E variant \in {1, 2}, hasForm \in BOOLEAN, hasBtn \in BOOLEAN,
          emailType \in EmailInputTypes :
           FormConstruct(variant, hasForm, hasBtn, emailType)
    \/ \E email \in FormEmails, phone \in FormPhones : FormInput(email, phone)
    \/ FormSubmit
    \/ \E p \in BagToSet(form.pending), ok \in BOOLEAN,
          errMessage \in {MsgConflict, ""} : FormSettled(p, ok, errMessage)
    \/ FormMessageTimeout

FormSpec == Init /\ [][FormNext]_vars

(***************************************************************************)
(* Properties.                                                             *)
(*                                                                         *)
(* A request is "handled alone" when no other request was pending at any   *)
(* moment between its arrival and its last callback, and "without storage  *)
(* failure" when none of its storage operations returned an error other    *)
(* than a constraint violation.                                            *)
(***************************************************************************)
\* The requests the state records: the pending ones and the last finished.
Requests == {last} \cup BagToSet(reqs)

Finished(r) == r.kind # "idle" /\ ~Pending(r)
Alone(r) == ~r.overlap /\ ~r.fault

\* The rows of rs that carry the email.
HasEmail(rs, email) == \E k \in 1..Len(rs) : rs[k].email = email

\* At least one field present and each present field well-formed.
WellFormed(r) ==
    /\ Truthy(r.email) \/ Truthy(r.phone)
    /\ Truthy(r.email) => validateEmail(r.email)
    /\ Truthy(r.phone) => ~toE164(r.phone).nul

\* Neither the email nor the number of the request is in a row of rs.
FreshContact(r, rs) ==
    \A k \in 1..Len(rs) :
        /\ Truthy(r.email) => rs[k].email # r.email
        /\ Truthy(r.phone) => rs[k].phone_e164 # toE164(r.phone)

SuccessMessages == {MsgViaEmail, MsgViaSMS}

\* C1: a subscribe request handled alone and without storage failure, with
\* at least one field present, every present field well-formed and a
\* contact that is in no row when it arrives, is answered 200 with a
\* success message and the id of a row that did not exist before, and the
\* active count right after the response is the count on arrival plus one.
C1_SubscribeOnceCountsOne ==
    \A r \in Requests :
            (/\ r.kind = "subscribe" /\ Finished(r) /\ Alone(r)
             /\ WellFormed(r)
             /\ FreshContact(r, r.pre))
            => /\ r.status = 200
               /\ r.reply \in SuccessMessages
               /\ r.subscriberId > Len(r.pre)
               /\ \A k \in 1..Len(r.pre) : r.pre[k].id # r.subscriberId
               /\ ActiveCount(r.post) = ActiveCount(r.pre) + 1

C1_Witness ==
    \E r \in Requests :
            /\ r.kind = "subscribe" /\ Finished(r) /\ Alone(r)
            /\ WellFormed(r)
            /\ FreshContact(r, r.pre)
            /\ Truthy(r.email) /\ Truthy(r.phone)
            /\ Len(r.pre) > 0
            /\ r.status = 200

\* The request passes the validation of the handler: a field is present,
\* a present email is valid, and the phone is absent, blank or normalizes.
PassesValidation(r) == SubscribeValidate(r.email, r.phone) = ""

\* C2 as stated: a subscribe request handled alone and without storage
\* failure, carrying a valid email that an earlier request has subscribed,
\* is answered 409, inserts no row and sends no SMS, whatever its phone.
C2_Original ==
    \A r \in Requests :
            (/\ r.kind = "subscribe" /\ Finished(r) /\ Alone(r)
             /\ Truthy(r.email) /\ validateEmail(r.email)
             /\ HasEmail(r.pre, r.email))
            => /\ r.status = 409
               /\ ~r.inserted
               /\ r.sms = 0

\* C2 (amended): of two sequential subscribe requests carrying the same
\* valid email, each with a phone that is absent, blank or normalizes to
\* E.164, the first (its email in no row) is answered 200 and the second
\* (its email in a row) 409 "already subscribed"; the second inserts no row,
\* sends no SMS and leaves the table as it was.  With a phone that fails
\* normalization the second is answered 400, also without insert or SMS.
C2_SameEmailTwice ==
    \A r \in Requests :
            (/\ r.kind = "subscribe" /\ Finished(r) /\ Alone(r)
             /\ Truthy(r.email) /\ validateEmail(r.email))
            => /\ (PassesValidation(r) /\ ~HasEmail(r.pre, r.email))
                  => r.status = 200 /\ r.inserted
               /\ (PassesValidation(r) /\ HasEmail(r.pre, r.email))
                  => r.status = 409 /\ r.reply = MsgConflict
               /\ ~PassesValidation(r) => r.status = 400
               /\ HasEmail(r.pre, r.email)
                  => ~r.inserted /\ r.sms = 0 /\ r.post = r.pre

C2_Witness ==
    \E r \in Requests :
            /\ r.kind = "subscribe" /\ Finished(r) /\ Alone(r)
            /\ Truthy(r.email) /\ validateEmail(r.email)
            /\ HasEmail(r.pre, r.email)
            /\ Truthy(r.phone) /\ PassesValidation(r)
            /\ \A k \in 1..Len(r.pre) : r.pre[k].phone # r.phone
            /\ r.status = 409

\* C3 as stated: the duplicate check looks at active rows only.  A
\* subscribe request with an email that passes validation, handled alone
\* and without storage failure, is answered 409 exactly when an active row
\* with that email exists on arrival.
C3_ConflictIffActiveRow ==
    \A r \in Requests :
            (/\ r.kind = "subscribe" /\ Finished(r) /\ Alone(r)
             /\ Truthy(r.email) /\ PassesValidation(r))
            => (r.status = 409
                  <=> \E k \in 1..Len(r.pre) :
                          r.pre[k].email = r.email /\ r.pre[k].is_active)

\* C4 as stated: an unsubscribe with a valid email, handled alone and
\* without storage failure, is answered 404 and changes no row when no row
\* has the email, 200 when a row with the email is active, and 404 when the
\* email was unsubscribed before (every row with it is already inactive).
C4_UnsubscribeTwice ==
    \A r \in Requests :
        LET mine == {k \in 1..Len(r.pre) : r.pre[k].email = r.email}
        IN  (/\ r.kind = "unsubscribe" /\ Finished(r) /\ Alone(r)
             /\ Truthy(r.email) /\ validateEmail(r.email))
            => /\ mine = {} => r.status = 404 /\ r.post = r.pre
               /\ (\E k \in mine : r.pre[k].is_active) => r.status = 200
               /\ (mine # {} /\ \A k \in mine : ~r.pre[k].is_active)
                  => r.status = 404

\* The rows of rs whose normalized number is the sender.
OfNumber(rs, from) ==
    {k \in 1..Len(rs) : ~rs[k].phone_e164.nul /\ rs[k].phone_e164 = from}

\* The step in which the queued UPDATE of the pending inbound request r is
\* applied without storage failure.
UpdateApplied(r) ==
    /\ r.kind = "inbound"
    /\ r.pc = "upd"
    /\ reqs' = reqs (-) SetToBag({r})
    /\ last' = [r EXCEPT !.pc = "done"]

\* The responses of C5: the confirmation of the keyword, and for any other
\* body an empty 204 with no update queued.
C5_Responses ==
    \A r \in Requests :
        LET b == NormalizeBody(r.body)
        IN  (r.kind = "inbound" /\ OfNumber(r.pre, r.from) # {})
            => /\ b \in StopFamily => r.status = 200 /\ r.reply = MsgStop
               /\ b = KwStart => r.status = 200 /\ r.reply = MsgStart
               /\ b = KwHelp
                  => r.status = 200 /\ r.reply = MsgHelp /\ ~Pending(r)
               /\ b \notin StopFamily \cup {KwStart, KwHelp}
                  => r.status = 204 /\ r.reply = "" /\ ~Pending(r)

\* The updates of C5: the UPDATE of a STOP-family message sets opted_out on
\* every row of the sender's number, the UPDATE of START clears it, and
\* every other column and every other row stays as it was.
C5_Updates ==
    \A r \in BagToSet(reqs) :
        UpdateApplied(r)
        => LET optOut == NormalizeBody(r.body) \in StopFamily
           IN  /\ Len(rows') = Len(rows)
               /\ \A k \in 1..Len(rows) :
                     IF k \in OfNumber(rows, r.from)
                     THEN rows'[k] = [rows[k] EXCEPT !.opted_out = optOut]
                     ELSE rows'[k] = rows[k]

\* A row changes only in a step that ends a pending INSERT or UPDATE.
C5_NoOtherChange ==
    (rows' # rows)
    => \E r \in BagToSet(reqs) :
           /\ r.pc \in {"ins", "upd"}
           /\ CopiesIn(r, reqs') < CopiesIn(r, reqs)

\* C5: an inbound message from a number that has a row: a STOP-family
\* body is answered with the unsubscribe confirmation and its UPDATE sets
\* opted_out on that number's rows; a later START is answered with the
\* resubscribe confirmation and its UPDATE clears opted_out; HELP is
\* answered with the help message and any other body with an empty 204,
\* and neither changes a row.
C5_StopStartHelp ==
    /\ []C5_Responses
    /\ [][C5_Updates /\ C5_NoOtherChange]_vars

\* A STOP from the number of a row has been applied, and then a START.
C5_Witness ==
    \E r \in Requests :
            /\ r.kind = "inbound" /\ Finished(r) /\ ~r.fault
            /\ NormalizeBody(r.body) = KwStart
            /\ \E k \in OfNumber(r.pre, r.from) :
                   r.pre[k].opted_out /\ ~rows[k].opted_out

\* What the handler does with an inbound message that has a sender.
InboundAction(r) ==
    IF r.status = 200 /\ r.reply = MsgStop THEN "stop"
    ELSE IF r.status = 200 /\ r.reply = MsgStart THEN "start"
    ELSE IF r.status = 200 /\ r.reply = MsgHelp /\ ~Pending(r) THEN "help"
    ELSE IF r.status = 204 /\ r.reply = "" /\ ~Pending(r) THEN "none"
    ELSE "other"

\* C6: the action of an inbound message with a sender is decided by the
\* trimmed, upper-cased body being equal to a keyword: two bodies with
\* the same normalized form get the same action; forms of a keyword in
\* another case or padded with white space act like the keyword; a body that
\* only contains a keyword ('STOP PLEASE', 'RESTART') is answered with an
\* empty 204 and queues no update.
C6_ExactKeywordMatch ==
    \A r \in Requests :
        LET b == NormalizeBody(r.body)
        IN  (r.kind = "inbound" /\ Truthy(r.from))
            => /\ InboundAction(r) =
                      (IF b \in StopFamily THEN "stop"
                       ELSE IF b = KwStart THEN "start"
                       ELSE IF b = KwHelp THEN "help"
                       ELSE "none")
               /\ r.body \in {BodyStopPadded, BodyStopNewline, BodyQuitTabbed,
                              BodyEndVerticalTab}
                  => InboundAction(r) = "stop"
               /\ r.body = BodyHelpLower => InboundAction(r) = "help"
               /\ r.body = BodyStartPadded => InboundAction(r) = "start"
               /\ r.body \in {BodyStopPlease, BodyRestart, BodyOther}
                  => InboundAction(r) = "none"

\* 'STOP PLEASE' from the number of a row that has not opted out: an empty
\* 204, and the row is as it was.
C6_Witness ==
    \E r \in Requests :
            /\ r.kind = "inbound" /\ r.body = BodyStopPlease
            /\ r.status = 204
            /\ OfNumber(rows, r.from) # {}
            /\ \A k \in OfNumber(rows, r.from) : ~rows[k].opted_out

\* C7 as stated: every row has a contact method, a non-empty email or a
\* normalized number.
C7_ContactPresent ==
    \A k \in 1..Len(rows) : Truthy(rows[k].email) \/ ~rows[k].phone_e164.nul

\* C8 as stated: a subscribe request with both fields absent, or a present
\* email that fails validation, or a present phone that does not normalize
\* to E.164, is answered 400, inserts no row and sends no SMS.
C8_InvalidRejected ==
    \A r \in Requests :
            (r.kind = "subscribe" /\ ~WellFormed(r))
            => /\ r.status = 400
               /\ ~r.inserted
               /\ r.sms = 0
               /\ r.post = r.pre

\* C9 as stated: no two rows hold the same (email, phone) pair, two absent
\* phones counting as the same.
C9_UniquePair ==
    \A k1, k2 \in 1..Len(rows) :
        (k1 # k2) =>
            ~(rows[k1].email = rows[k2].email /\ rows[k1].phone = rows[k2].phone)

\* The row the request inserted.
InsertedRow(r) ==
    /\ r.subscriberId \in 1..Len(rows)
    /\ rows[r.subscriberId].id = r.subscriberId
    /\ rows[r.subscriberId].email = InsertEmail(r.email)
    /\ rows[r.subscriberId].phone = r.phone

\* C10: a subscribe request whose INSERT succeeded keeps its row in the
\* table and, once the provider call has settled (resolved or thrown), is
\* answered 200 with the success message; a send is attempted only after
\* the INSERT succeeded and only with a normalized number, at most once,
\* and never by a request answered 400, 409 or 500.
C10_SmsBestEffort ==
    \A r \in Requests :
            r.kind = "subscribe"
            => /\ r.inserted => InsertedRow(r)
               /\ (r.inserted /\ Finished(r))
                  => r.status = 200 /\ r.reply \in SuccessMessages
               /\ r.sms > 0 => r.inserted /\ ~r.phoneE164.nul /\ r.sms = 1
               /\ r.status \in {400, 409, 500} => r.sms = 0 /\ ~r.inserted
               /\ r.smsErr => r.sms = 1 /\ r.status = 200

\* The send threw and the request was answered 200 with its row in place.
C10_Witness ==
    \E r \in Requests :
            /\ r.kind = "subscribe" /\ Finished(r)
            /\ r.smsErr /\ r.inserted /\ InsertedRow(r)
            /\ r.status = 200

\* A subscribe request whose row is inserted and whose response is not sent.
InsertedUnanswered ==
    \E r \in BagToSet(reqs) :
        r.kind = "subscribe" /\ r.inserted /\ r.status = 0

\* C11 as stated: the success response does not wait for the provider call
\* (with storage that answers and a provider call that may never settle,
\* every subscribe request whose row is inserted gets its response), and a
\* request makes at most one send attempt.
C11_ResponseNotBlocked ==
    /\ [](\A r \in Requests : r.sms <= 1)
    /\ (InsertedUnanswered ~> ~InsertedUnanswered)

\* The target is reached or passed at the last run of updateTimer.
Reached == NonPositive(Minus(timer.targetDate, timer.now))

AllZeros == \A n \in SlotSet : timer.text[n] = Zeros

\* C12 as stated: for a timer that holds an onEnd callback and found its
\* four slots, whatever the target (already passed at construction or
\* reached after some ticks): once the target is reached or passed onEnd
\* has been invoked exactly once, the four slots show "00" and no tick is
\* scheduled; before that onEnd has not been invoked.
C12_OnEndExactlyOnce ==
    (timer.built /\ timer.elements = SlotSet /\ timer.onEnd)
    => /\ Reached => /\ timer.onEndCalls = 1
                     /\ AllZeros
                     /\ ~timer.active
       /\ ~Reached => timer.onEndCalls = 0

\* C19 as stated: constructing a timer when a slot does not exist is a
\* no-op: no exception, no interval, no write to a slot, no call of onEnd.
C19_MissingSlotNoOp ==
    (timer.built /\ timer.elements # SlotSet)
    => /\ ~timer.threw
       /\ ~timer.active
       /\ timer.writes = 0
       /\ timer.onEndCalls = 0

DigitValue(c) == CHOOSE k \in 0..9 : DigitChar(k) = c

\* The number a string of decimal digits denotes.
RECURSIVE ParseNumber(_)
ParseNumber(str) ==
    IF str = <<>> THEN 0
    ELSE ParseNumber(SubSeq(str, 1, Len(str) - 1)) * 10
            + DigitValue(str[Len(str)])

\* The values the slots show satisfy hours < 24, minutes < 60, seconds < 60
\* and days*86400 + hours*3600 + minutes*60 + seconds = floor(d / 1000).
ShowsDistance(d) ==
    LET days == ParseNumber(timer.text["days"])
        hours == ParseNumber(timer.text["hours"])
        minutes == ParseNumber(timer.text["minutes"])
        seconds == ParseNumber(timer.text["seconds"])
    IN  /\ hours < 24 /\ minutes < 60 /\ seconds < 60
        /\ days * 86400 + hours * 3600 + minutes * 60 + seconds = d.s

\* C20 as stated: after updateTimer has run at distance d, for d > 0 the
\* four slots hold two-digit values that add up to floor(d / 1000) seconds,
\* and for d <= 0 all four hold "00".
C20_Original ==
    (timer.built /\ timer.elements = SlotSet)
    => LET d == Minus(timer.targetDate, timer.now)
       IN  IF NonPositive(d) THEN AllZeros
           ELSE /\ \A n \in SlotSet : Len(timer.text[n]) = 2
                /\ ShowsDistance(d)

\* C20 (amended): after updateTimer has run at distance d, for d > 0 the
\* slots hours, minutes and seconds hold zero-padded two-digit values and
\* the slot days holds the number of days zero-padded to two digits, which
\* is two digits below 100 days and the full number (three digits and
\* more) from 100 days on; hours < 24, minutes < 60, seconds < 60 and
\* days*86400 + hours*3600 + minutes*60 + seconds = floor(d / 1000); for
\* d = 3661 s the slots show 00, 01, 01, 01; for d <= 0 all four hold "00".
C20_DisplayArithmetic ==
    (timer.built /\ timer.elements = SlotSet)
    => LET d == Minus(timer.targetDate, timer.now)
           days == ParseNumber(timer.text["days"])
       IN  IF NonPositive(d) THEN AllZeros
           ELSE /\ \A n \in SlotSet \ {"days"} : Len(timer.text[n]) = 2
                /\ Len(timer.text["days"]) >= 2
                /\ Len(timer.text["days"]) = 2 <=> days < 100
                /\ days >= 100 => timer.text["days"][1] # "0"
                /\ ShowsDistance(d)
                /\ d = Time(3661, 0)
                   => /\ timer.text["days"] = <<"0", "0">>
                      /\ timer.text["hours"] = <<"0", "1">>
                      /\ timer.text["minutes"] = <<"0", "1">>
                      /\ timer.text["seconds"] = <<"0", "1">>

\* A timer one tick after its construction 100 days and 1 h 1 min 1.999 s
\* before the target: the slots show 100, 01, 01, 00.
C20_Witness ==
    /\ timer.built /\ timer.elements = SlotSet
    /\ timer.ticks = 1
    /\ Minus(timer.targetDate, timer.now) = Time(100 * 86400 + 3660, 999)
    /\ timer.text["days"] = <<"1", "0", "0">>
    /\ timer.text["hours"] = <<"0", "1">>
    /\ timer.text["minutes"] = <<"0", "1">>
    /\ timer.text["seconds"] = <<"0", "0">>

\* The columns of a row that no UPDATE of the service names.
SameIdentity(a, b) ==
    /\ a.id = b.id
    /\ a.email = b.email
    /\ a.phone = b.phone
    /\ a.phone_e164 = b.phone_e164
    /\ a.created_at = b.created_at

\* The step ran the storage operation of the pending request r.
Ran(r) == r \in BagToSet(reqs) /\ CopiesIn(r, reqs') < CopiesIn(r, reqs)

\* The frame of one step: no row disappears and no identity column of a
\* row changes; the arrival of a request changes no row; a step that
\* changes the table ran the INSERT of a subscribe request that was not
\* rejected (one row more, the others as they were), the UPDATE of an
\* unsubscribe request (only is_active differs) or the UPDATE of a STOP-
\* family or START message (only opted_out differs, the active count is
\* the same).
C13_Step ==
    /\ Len(rows') >= Len(rows)
    /\ \A k \in 1..Len(rows) : SameIdentity(rows[k], rows'[k])
    /\ nreq' # nreq => rows' = rows
    /\ rows' # rows
       => \E r \in BagToSet(reqs) :
              /\ Ran(r)
              /\ CASE r.kind = "subscribe" ->
                        /\ r.pc = "ins" /\ r.status = 0
                        /\ Len(rows') = Len(rows) + 1
                        /\ SubSeq(rows', 1, Len(rows)) = rows
                   [] r.kind = "unsubscribe" ->
                        /\ Len(rows') = Len(rows)
                        /\ \A k \in 1..Len(rows) :
                               rows'[k].opted_out = rows[k].opted_out
                   [] r.kind = "inbound" ->
                        /\ NormalizeBody(r.body) \in StopFamily \cup {KwStart}
                        /\ Len(rows') = Len(rows)
                        /\ \A k \in 1..Len(rows) :
                               rows'[k].is_active = rows[k].is_active
                        /\ ActiveCount(rows') = ActiveCount(rows)
                   [] OTHER -> FALSE

\* C13: across every operation rows are never deleted, id, email, phone,
\* phone_e164 and created_at of a row never change, unsubscribe changes
\* only is_active, STOP-family and START change only opted_out, and health,
\* count, HELP, other inbound bodies, the status webhook and rejected
\* requests change nothing.
C13_FrameEffects == [][C13_Step]_vars

\* An unsubscribe has made inactive a row that had opted out, and the row
\* is still opted out.
C13_Witness ==
    /\ last.kind = "unsubscribe" /\ last.status = 200
    /\ \E k \in 1..Len(last.pre) :
           /\ last.pre[k].is_active /\ last.pre[k].opted_out
           /\ ~rows[k].is_active /\ rows[k].opted_out

\* One step of the lifecycle of the rows: an inactive row stays inactive,
\* and a new row is active and has not opted out.
C14_Step ==
    /\ \A k \in 1..Len(rows) :
           /\ k <= Len(rows')
           /\ ~rows[k].is_active => ~rows'[k].is_active
    /\ \A k \in (Len(rows) + 1)..Len(rows') :
           rows'[k].is_active /\ ~rows'[k].opted_out

\* C14: a row is created with is_active = true and opted_out = false, and
\* once its is_active is false no operation of the service makes it true
\* again; opted_out changes in both directions whatever is_active is.
C14_Lifecycle == [][C14_Step]_vars

\* A STOP has set opted_out on a row that an unsubscribe had made inactive
\* before, and the row is still inactive.
C14_Witness ==
    /\ last.kind = "inbound" /\ ~last.fault
    /\ NormalizeBody(last.body) \in StopFamily
    /\ \E k \in OfNumber(last.pre, last.from) :
           /\ ~last.pre[k].is_active /\ ~last.pre[k].opted_out
           /\ ~rows[k].is_active /\ rows[k].opted_out

\* The subscription the request asks for is stored and active on arrival:
\* an active row holds the email of the request or, for a request without
\* email, its phone (a phone that normalizes to E.164).
DuplicatesActive(r) ==
    \E k \in 1..Len(r.pre) :
        /\ r.pre[k].is_active
        /\ IF Truthy(r.email) THEN r.pre[k].email = r.email
           ELSE /\ ~NormalizePhone(r.phone).nul
                /\ r.pre[k].phone = r.phone

\* C15 as stated: a subscribe request that passes validation, is handled
\* alone and without storage failure and duplicates an active subscription
\* (its email, or for a phone-only request its phone, is in an active row)
\* is answered 409, not 500.
C15_DuplicateIsConflict ==
    \A r \in Requests :
        (/\ r.kind = "subscribe" /\ Finished(r) /\ Alone(r)
         /\ PassesValidation(r)
         /\ DuplicatesActive(r))
        => r.status = 409

\* C16 as stated: after SIGINT the service accepts no new request (so that
\* no handler starts a write between the signal and the exit): no request
\* has arrived after the signal.
C16_NoRequestAfterSignal ==
    \A r \in Requests : ~r.late

\* Both trimmed fields are empty, or the trimmed email is not empty and
\* fails the pattern check.
LocallyInvalid ==
    LET email == trim(form.email)
        phone == trim(form.phone)
    IN  \/ email = <<>> /\ phone = <<>>
        \/ email # <<>> /\ ~emailRegexTest(email)

\* The emails of FormEmails that fail the pattern: no "@", no "." after the
\* "@", a blank, a tab or a vertical tab inside.
BadFormEmails ==
    {EmailNoAt.s, EmailNoDomain.s, <<"a", " ", "b", "@", "c", ".", "d">>,
     <<"a", "\t", "b", "@", "c", ".", "d">>,
     <<"a", VerticalTab, "b", "@", "c", ".", "d">>}

\* A submit event on such fields: fetch is not called, an error message is
\* shown, and the submit control and the fields are as they were (the
\* control enabled when no request is in flight).
C17_Step ==
    (form'.submits = form.submits + 1)
    => /\ trim(form.email) \in BadFormEmails => LocallyInvalid
       /\ LocallyInvalid
          => /\ form'.fetches = form.fetches
             /\ form'.pending = form.pending
             /\ form'.isError
             /\ form'.message \in {MsgFormRequired, MsgFormEmail}
             /\ form'.btnDisabled = form.btnDisabled
             /\ form'.btnText = form.btnText
             /\ form.pending = EmptyBag => ~form'.btnDisabled
             /\ form'.email = form.email /\ form'.phone = form.phone
             /\ form'.resets = form.resets

\* C17: handleSubmit makes no network call and shows an error message
\* whenever both trimmed fields are empty or the non-empty trimmed email
\* fails the pattern check; the submit control is not disabled and the
\* fields are not cleared.
C17_LocalRejection == [][C17_Step]_vars

\* An email without a "." after the "@" was submitted together with a
\* phone number: the error message is shown and fetch was never called.
C17_Witness ==
    /\ form.outcome = "rejected"
    /\ form.message = MsgFormEmail /\ form.isError
    /\ trim(form.email) = EmailNoDomain.s
    /\ form.phone = PhoneA.s
    /\ form.fetches = 0
    /\ ~form.btnDisabled

\* C18 as stated: the submit control is disabled at every moment a request
\* is in flight, and once every started request has completed it is
\* enabled and shows its original label.
C18_DisabledWhileInFlight ==
    form.hasBtn
    => /\ form.pending # EmptyBag => form.btnDisabled
       /\ form.pending = EmptyBag
          => ~form.btnDisabled /\ form.btnText = BtnLabel

(***************************************************************************)
(* C21.  Once a STOP-family keyword from a number N has been processed,    *)
(* and until a START from N is processed, no step of the service attempts  *)
(* an outbound message to N and no row with phone_e164 = N has opted_out = *)
(* false.  A row with opted_out = true exists for N exactly from the       *)
(* processing of a STOP that matched a row until the processing of a START.*)
(***************************************************************************)
\* The numbers that have opted out: a STOP was applied to a row of theirs
\* and no START since.
OptedOutNumbers(rs) ==
    {rs[k].phone_e164 : k \in {j \in 1..Len(rs) : rs[j].opted_out}}

\* The UPDATE of a START from n runs in this step.
StartProcessed(n) ==
    \E r \in BagToSet(reqs) :
        /\ r.kind = "inbound" /\ r.pc = "upd" /\ r.from = n
        /\ IsStart(NormalizeBody(r.body))
        /\ rows' = UpdateOptedOut(rows, n, FALSE)
        /\ reqs' = reqs (-) SetToBag({r})

\* This step calls client.messages.create with to = n: the request whose
\* row was just inserted awaits the provider.
SmsAttempted(n) ==
    /\ Len(rows') > Len(rows)
    /\ \E r \in BagToSet(reqs') :
           /\ r.pc = "sms" /\ r.sms > 0
           /\ r.subscriberId = Len(rows')
           /\ r.phoneE164 = n

C21_Step ==
    \A n \in OptedOutNumbers(rows) :
        \/ StartProcessed(n)
        \/ /\ ~SmsAttempted(n)
           /\ \A k \in 1..Len(rows') :
                  rows'[k].phone_e164 = n => rows'[k].opted_out

C21_NoMessageAfterStop == [][C21_Step]_vars

(***************************************************************************)
(* C22.  Under every interleaving of concurrent POST /api/subscribe        *)
(* requests at most one row per non-empty email exists: two overlapping    *)
(* requests with the same email and different phone values are not both    *)
(* inserted.                                                               *)
(***************************************************************************)
C22_OneRowPerEmail ==
    \A k, j \in 1..Len(rows) :
        (Truthy(rows[k].email) /\ rows[k].email = rows[j].email) => k = j

(***************************************************************************)
(* C23.  For inbound STOP-family and START messages of one number, a       *)
(* response returned for the keyword implies that its update is applied:   *)
(* when the storage operation the handler queued for the message has       *)
(* completed, every row of the number carries the opted_out value of that  *)
(* keyword (the update is not lost), so that after the last completion the *)
(* rows carry the effect of the last keyword.                              *)
(***************************************************************************)
\* The storage operation queued for the inbound request r, which was
\* answered with a confirmation, completes in this step.
UpdateCompleted(r) ==
    /\ r.kind = "inbound" /\ r.pc = "upd" /\ r.status = 200
    /\ nreq' = nreq
    /\ reqs' = reqs (-) SetToBag({r})

C23_Step ==
    \A r \in BagToSet(reqs) :
        UpdateCompleted(r)
        => \A k \in SelectByE164(rows', r.from) :
               rows'[k].opted_out = IsStop(NormalizeBody(r.body))

C23_KeywordApplied == [][C23_Step]_vars

(***************************************************************************)
(* C24.  Immediately after POST /api/unsubscribe returns success for an    *)
(* email, no row with that email has is_active = true, the active count    *)
(* has dropped by exactly the number of rows with that email that were     *)
(* active before the update, and no row's opted_out has changed.           *)
(***************************************************************************)
\* The callback of the UPDATE of the unsubscribe request r runs in this step
\* and answers 200.
UnsubscribeSucceeded(r) ==
    /\ r.kind = "unsubscribe" /\ r.pc = "upd"
    /\ nreq' = nreq
    /\ reqs' = reqs (-) SetToBag({r})
    /\ last'.kind = "unsubscribe" /\ last'.status = 200

\* The rows of rs that carry the email and are active.
ActiveWithEmail(rs, email) ==
    {k \in 1..Len(rs) : rs[k].email = email /\ rs[k].is_active}

C24_Step ==
    \A r \in BagToSet(reqs) :
        UnsubscribeSucceeded(r)
        => /\ ActiveWithEmail(rows', r.email) = {}
           /\ ActiveCount(rows')
                 = ActiveCount(rows) - Cardinality(ActiveWithEmail(rows, r.email))
           /\ Len(rows') = Len(rows)
           /\ \A k \in 1..Len(rows) : rows'[k].opted_out = rows[k].opted_out

C24_UnsubscribeEffect == [][C24_Step]_vars

\* An unsubscribe request was answered 200: a row of its email is inactive
\* while a row of another contact is still active.
C24_Witness ==
    /\ last.kind = "unsubscribe" /\ last.status = 200
    /\ last.post = rows
    /\ \E k \in 1..Len(rows) : rows[k].email = last.email /\ ~rows[k].is_active
    /\ \E k \in 1..Len(rows) : rows[k].email # last.email /\ rows[k].is_active

(***************************************************************************)
(* C25.  Every request to subscribe, unsubscribe, count and sms/inbound is *)
(* answered with exactly one response on every path through its callbacks  *)
(* (validation failure, storage error on the check, conflict, storage      *)
(* error on the insert, SMS failure, success): no request has two          *)
(* responses sent, and a request whose handling has ended has one.         *)
(***************************************************************************)
AnsweredKinds == {"subscribe", "unsubscribe", "count", "inbound"}

\* A callback of the pending request r runs.
CallbackOf(r) ==
    \/ SubscribeGetCallback(r)
    \/ SubscribeGetError(r)
    \/ SubscribeInsertCallback(r)
    \/ SubscribeInsertError(r)
    \/ \E threw \in BOOLEAN : SubscribeSmsSettled(r, threw)
    \/ CountCallback(r)
    \/ CountError(r)
    \/ UnsubscribeCallback(r)
    \/ UnsubscribeError(r)
    \/ SmsInboundUpdate(r)
    \/ SmsInboundUpdateError(r)

\* No request has two responses, a request whose handling has ended has
\* one, and a request without a response waits for a callback that can run.
C25_ExactlyOneResponse ==
    /\ \A r \in Requests :
           r.kind \in AnsweredKinds
           => /\ r.responses <= 1
              /\ (r.responses = 1) = (r.status # 0)
              /\ Finished(r) => r.responses = 1
    /\ \A r \in BagToSet(reqs) :
           /\ r.kind \in AnsweredKinds
           /\ r.status = 0 => ENABLED CallbackOf(r)

\* A subscribe request went through the check, the INSERT and a failed
\* confirmation SMS, and was answered.
C25_Witness ==
    /\ last.kind = "subscribe" /\ Finished(last)
    /\ Truthy(last.email) /\ last.inserted /\ last.smsErr
    /\ last.responses = 1

(***************************************************************************)
(* C26.  When a confirmation SMS is sent, the sender is the messaging-     *)
(* service identifier whenever one is configured (whether or not a fixed   *)
(* sender number is configured too), and the fixed sender number           *)
(* otherwise; the message never carries both sender fields.  An identifier *)
(* is configured when the variable is set to a non-empty string.           *)
(***************************************************************************)
C26_SenderSelection ==
    \A r \in Requests :
        r.sms > 0
        => /\ r.msg.to = r.phoneE164
           /\ Truthy(env.sid)
              => r.msg.messagingServiceSid = env.sid /\ r.msg.from = Null
           /\ ~Truthy(env.sid)
              => r.msg.from = env.from /\ r.msg.messagingServiceSid = Null
           /\ r.msg.messagingServiceSid = Null \/ r.msg.from = Null

\* A confirmation SMS was sent by a process that has both the identifier and
\* the sender number configured.
C26_Witness ==
    /\ Truthy(env.sid) /\ Truthy(env.from)
    /\ last.kind = "subscribe" /\ last.status = 200 /\ last.sms = 1
    /\ last.msg.messagingServiceSid = ServiceSid
    /\ last.msg.from = Null

====
